---- MODULE Spec2Model ----
(***************************************************************************)
(* DetectSecure portal: the verification-and-reporting API of server.js.   *)
(*                                                                         *)
(* A JavaScript string is a sequence of one-character strings, so that     *)
(* trim() and toUpperCase() are computed character by character.  The      *)
(* values undefined and null are two sequences that are no string; null    *)
(* in the place of an object (a client, a row) is the record NullObj.      *)
(* The Supabase store (tables detectors and found_reports) is external: it *)
(* answers each call with a result, with an error, or by throwing.         *)
(***************************************************************************)
EXTENDS Integers, Sequences, FiniteSets, TLC

VARIABLES
    process_env,     \* the environment variables read at startup
    supabasePublic,  \* server.js:35  the public client, or NullObj
    supabaseAdmin,   \* server.js:37  the admin client, or NullObj
    detectors,       \* table detectors: id -> email, or NoRow
    found_reports,   \* table found_reports: the rows in insertion order
    req              \* the requests: handler, position, locals, response

vars == <<process_env, supabasePublic, supabaseAdmin, detectors, found_reports, req>>

----------------------------------------------------------------------------
(* Bounds *)

MaxIdLen == 2
MaxEmailLen == 1
NumReqs == 2

----------------------------------------------------------------------------
(* JavaScript values *)

Undefined == <<"#undefined">>
Null == <<"#null">>
NullObj == [null |-> TRUE]
Empty == <<>>

Truthy(v) == v \notin {Undefined, Null, Empty}

Or(a, b) == IF Truthy(a) THEN a ELSE b

ToStr(v) ==
    IF v = Undefined THEN <<"u", "n", "d", "e", "f", "i", "n", "e", "d">>
    ELSE IF v = Null THEN <<"n", "u", "l", "l">>
    ELSE v

IsSpace(c) == c = " "

RECURSIVE trimStart(_)
trimStart(s) ==
    IF s = <<>> THEN <<>>
    ELSE IF IsSpace(Head(s)) THEN trimStart(Tail(s))
    ELSE s

RECURSIVE trimEnd(_)
trimEnd(s) ==
    IF s = <<>> THEN <<>>
    ELSE IF IsSpace(s[Len(s)]) THEN trimEnd(SubSeq(s, 1, Len(s) - 1))
    ELSE s

trim(s) == trimEnd(trimStart(s))

UpperChar(c) == IF c = "a" THEN "A" ELSE c

toUpperCase(s) == [i \in 1..Len(s) |-> UpperChar(s[i])]

(* The strings over an alphabet, up to a length. *)
RECURSIVE Strs(_, _)
Strs(chars, n) ==
    IF n = 0 THEN {<<>>}
    ELSE LET shorter == Strs(chars, n - 1)
         IN  shorter \cup {Append(s, c) : s \in shorter, c \in chars}

IdChars == {" ", "a", "A"}
TextChars == {" ", "x"}

RawIds == {Undefined} \cup Strs(IdChars, MaxIdLen)
RawEmails == {Undefined} \cup Strs(TextChars, MaxEmailLen)

(* finder_name and message: absent, empty, blank, and with text. *)
OptionalTexts == {Undefined, Empty, <<" ">>, <<"x">>, <<" ", "x">>}

----------------------------------------------------------------------------
(* Configuration: server.js:29-49 *)

EnvValues == {Undefined, <<"k">>}

DefaultUrl == <<"h">>

SUPABASE_URL == Or(process_env.SUPABASE_URL, DefaultUrl)
SUPABASE_ANON_KEY == process_env.SUPABASE_ANON_KEY
SUPABASE_SERVICE_ROLE_KEY == process_env.SUPABASE_SERVICE_ROLE_KEY

createClient(url, key) == [url |-> url, key |-> key]

PublicClient ==
    IF Truthy(SUPABASE_URL) /\ Truthy(SUPABASE_ANON_KEY)
    THEN createClient(SUPABASE_URL, SUPABASE_ANON_KEY)
    ELSE NullObj

AdminClient_Unchecked == createClient(SUPABASE_URL, SUPABASE_SERVICE_ROLE_KEY)

AdminClient ==
    IF Truthy(SUPABASE_URL) /\ Truthy(SUPABASE_SERVICE_ROLE_KEY)
    THEN createClient(SUPABASE_URL, SUPABASE_SERVICE_ROLE_KEY)
    ELSE NullObj

----------------------------------------------------------------------------
(* The external store *)

NoRow == <<"#norow">>
DetectorIds == {<<"A">>, <<"a">>}
Emails == {Null, Empty, <<"p">>, <<"q">>}

(* What the store holds under an id in the specifications below: the
   canonical id "A" carries any email that is a string, the lower-case id
   "a" (which no canonical id equals) one email.  OwnerCells adds the
   detector whose email column is null. *)
Cells(d) == IF d = <<"A">> THEN {NoRow} \cup (Emails \ {Null}) ELSE {NoRow, <<"q">>}

OwnerCells(d) == IF d = <<"A">> THEN {NoRow} \cup Emails ELSE {NoRow, <<"q">>}

StoreError == "store error"
StoreThrow == "store threw"
Outcomes == {"ok", "error", "throw"}

SelectDetector_IgnoreCase(id) ==
    LET m == {d \in DetectorIds : toUpperCase(d) = id /\ detectors[d] # NoRow}
    IN  IF id \in DetectorIds /\ detectors[id] # NoRow
        THEN [id |-> id, email |-> detectors[id]]
        ELSE IF m # {}
        THEN [id |-> CHOOSE d \in m : TRUE, email |-> detectors[CHOOSE d \in m : TRUE]]
        ELSE NullObj

(* .from("detectors").select(...).eq("id", id).maybeSingle() *)
SelectDetector(id) ==
    IF id \in DetectorIds /\ detectors[id] # NoRow
    THEN [id |-> id, email |-> detectors[id]]
    ELSE NullObj

DetectorIdsPresent == {d \in DetectorIds : detectors[d] # NoRow}

(* The canonical form of an id (trimmed, upper-cased), and what the store
   holds under it: history kept with a request for the properties below. *)
Canon(raw) == toUpperCase(trim(raw))

Cell(id) == IF id \in DetectorIds THEN detectors[id] ELSE NoRow

----------------------------------------------------------------------------
(* Requests *)

Reqs == 1..NumReqs

NoRes == [status |-> 0]

(* handler, pc: which route serves the request and where it stands;
   id, finder_email: the inputs as received; cleanId .. row: the handler's
   locals; calls: the store calls issued; outcome: how the store answered
   last; seen, found: the detectors present, and the cell under the
   canonical id, when the lookup was answered; began: the rows in
   found_reports when the request arrived; res: the response. *)
Idle ==
    [handler |-> "none", pc |-> "idle", id |-> Undefined, finder_email |-> Undefined,
     cleanId |-> Empty, cleanEmail |-> Empty, owner |-> NullObj, owner_email |-> Null,
     row |-> NullObj, calls |-> <<>>, outcome |-> "none", seen |-> {}, found |-> NoRow,
     began |-> 0, res |-> NoRes]

Json(status, body) == [status |-> status, body |-> body]

Fail(status, message) == Json(status, [success |-> FALSE, error |-> message])

Respond(r, rec, res) == req' = [req EXCEPT ![r] = [rec EXCEPT !.pc = "done", !.res = res]]

Await(r, rec, pc, call) ==
    req' = [req EXCEPT ![r] = [rec EXCEPT !.pc = pc, !.calls = Append(@, call)]]

----------------------------------------------------------------------------
(* GET /health: server.js:56-63 *)

HealthBody_Swapped ==
    [ok |-> TRUE,
     hasSupabaseUrl |-> Truthy(SUPABASE_URL),
     hasAnonKey |-> Truthy(SUPABASE_SERVICE_ROLE_KEY),
     hasServiceRoleKey |-> Truthy(SUPABASE_ANON_KEY)]

HealthBody ==
    [ok |-> TRUE,
     hasSupabaseUrl |-> Truthy(SUPABASE_URL),
     hasAnonKey |-> Truthy(SUPABASE_ANON_KEY),
     hasServiceRoleKey |-> Truthy(SUPABASE_SERVICE_ROLE_KEY)]

Health(r) ==
    /\ req[r].pc = "idle"
    /\ Respond(r, [req[r] EXCEPT !.handler = "health"], Json(200, HealthBody))
    /\ UNCHANGED <<process_env, supabasePublic, supabaseAdmin, detectors, found_reports>>

----------------------------------------------------------------------------
(* GET /api/verify: server.js:81-101 *)

VerifyId_TrimOnly(raw) == trim(ToStr(Or(raw, Empty)))

VerifyId(raw) == toUpperCase(trim(ToStr(Or(raw, Empty))))

VerifyGate_ConfigFirst(id) ==
    IF supabasePublic = NullObj
    THEN Fail(500, "Supabase public client missing on server.")
    ELSE IF ~Truthy(id) THEN Fail(400, "Missing id")
    ELSE NoRes

(* Lines 83-90: the response that ends the request before any store call,
   or NoRes when the lookup goes ahead. *)
VerifyGate(id) ==
    IF ~Truthy(id) THEN Fail(400, "Missing id")
    ELSE IF supabasePublic = NullObj
    THEN Fail(500, "Supabase public client missing on server.")
    ELSE NoRes

VerifyStart(r, raw) ==
    /\ req[r].pc = "idle"
    /\ LET id == VerifyId(raw)
           rec == [req[r] EXCEPT !.handler = "verify", !.id = raw, !.cleanId = id]
       IN  IF VerifyGate(id) # NoRes
           THEN Respond(r, rec, VerifyGate(id))
           ELSE Await(r, rec, "lookup", "select detectors")
    /\ UNCHANGED <<process_env, supabasePublic, supabaseAdmin, detectors, found_reports>>

VerifyResult_NoError(id, data) ==
    Json(200, [success |-> TRUE, registered |-> TRUE, id |-> id])

VerifyResult(id, data) ==
    Json(200, [success |-> TRUE, registered |-> data # NullObj, id |-> id])

VerifyReply_Retry(r, outcome) ==
    /\ req[r].handler = "verify"
    /\ req[r].pc = "lookup"
    /\ LET rec == [req[r] EXCEPT !.outcome = outcome]
       IN  CASE outcome = "ok" ->
                  Respond(r, rec, VerifyResult(rec.cleanId, SelectDetector(rec.cleanId)))
             [] outcome \in {"error", "throw"} ->
                  IF Len(rec.calls) < 2
                  THEN Await(r, rec, "lookup", "select detectors")
                  ELSE Respond(r, rec, Fail(500, StoreError))
    /\ UNCHANGED <<process_env, supabasePublic, supabaseAdmin, detectors, found_reports>>

(* The lookup answers.  Nothing catches a rejected await here, so a throw
   leaves the request without a response. *)
VerifyReply(r, outcome) ==
    /\ req[r].handler = "verify"
    /\ req[r].pc = "lookup"
    /\ LET rec == [req[r] EXCEPT !.outcome = outcome]
           ok == [rec EXCEPT !.seen = DetectorIdsPresent,
                             !.found = Cell(Canon(ToStr(Or(req[r].id, Empty))))]
       IN  CASE outcome = "ok" ->
                  Respond(r, ok, VerifyResult(rec.cleanId, SelectDetector(rec.cleanId)))
             [] outcome = "error" ->
                  Respond(r, rec, Fail(500, StoreError))
             [] outcome = "throw" ->
                  req' = [req EXCEPT ![r] = [rec EXCEPT !.pc = "hung"]]
    /\ UNCHANGED <<process_env, supabasePublic, supabaseAdmin, detectors, found_reports>>

----------------------------------------------------------------------------
(* POST /api/report: server.js:187-244 *)

CleanId_TrimOnly(id) == trim(ToStr(Or(id, Empty)))

CleanId(id) == toUpperCase(trim(ToStr(Or(id, Empty))))

CleanEmail(finder_email) == trim(ToStr(Or(finder_email, Empty)))

(* finder_name ? String(finder_name).trim() : null *)
CleanOptional(v) == IF Truthy(v) THEN trim(ToStr(v)) ELSE Null

OwnerEmail_Null(owner) == Null

OwnerEmail_Raw(owner) == IF owner = NullObj THEN Null ELSE owner.email

(* owner?.email || null *)
OwnerEmail(owner) == IF owner = NullObj THEN Null ELSE Or(owner.email, Null)

ReportRow(cleanId, finder_name, cleanEmail, message, owner_email) ==
    [detector_id |-> cleanId,
     finder_name |-> CleanOptional(finder_name),
     finder_email |-> cleanEmail,
     message |-> CleanOptional(message),
     owner_email |-> owner_email]

ReportGate_ConfigFirst(cleanId, cleanEmail) ==
    IF supabaseAdmin = NullObj
    THEN Fail(500, "Supabase admin client missing (SUPABASE_SERVICE_ROLE_KEY).")
    ELSE IF ~Truthy(cleanId) \/ ~Truthy(cleanEmail)
    THEN Fail(400, "Missing required fields (id, finder_email)")
    ELSE NoRes

ReportGate_PublicClient(cleanId, cleanEmail) ==
    IF ~Truthy(cleanId) \/ ~Truthy(cleanEmail)
    THEN Fail(400, "Missing required fields (id, finder_email)")
    ELSE IF supabasePublic = NullObj
    THEN Fail(500, "Supabase admin client missing (SUPABASE_SERVICE_ROLE_KEY).")
    ELSE NoRes

(* Lines 194-206: the response that ends the request before any store call,
   or NoRes when the owner lookup goes ahead. *)
ReportGate(cleanId, cleanEmail) ==
    IF ~Truthy(cleanId) \/ ~Truthy(cleanEmail)
    THEN Fail(400, "Missing required fields (id, finder_email)")
    ELSE IF supabaseAdmin = NullObj
    THEN Fail(500, "Supabase admin client missing (SUPABASE_SERVICE_ROLE_KEY).")
    ELSE NoRes

ReportStart(r, id, finder_email) ==
    /\ req[r].pc = "idle"
    /\ LET cleanId == CleanId(id)
           cleanEmail == CleanEmail(finder_email)
           rec == [req[r] EXCEPT !.handler = "report", !.id = id,
                                 !.finder_email = finder_email,
                                 !.cleanId = cleanId, !.cleanEmail = cleanEmail,
                                 !.began = Len(found_reports)]
       IN  IF ReportGate(cleanId, cleanEmail) # NoRes
           THEN Respond(r, rec, ReportGate(cleanId, cleanEmail))
           ELSE Await(r, rec, "lookup", "select detectors")
    /\ UNCHANGED <<process_env, supabasePublic, supabaseAdmin, detectors, found_reports>>

(* The owner lookup answers (lines 209-234).  finder_name and message are
   read here and nowhere else (lines 227 and 229), so they are drawn here. *)
ReportLookupReply(r, outcome, finder_name, message) ==
    /\ req[r].handler = "report"
    /\ req[r].pc = "lookup"
    /\ LET rec == [req[r] EXCEPT !.outcome = outcome]
           owner == SelectDetector(rec.cleanId)
           owner_email == OwnerEmail(owner)
       IN  CASE outcome = "ok" ->
                  Await(r, [rec EXCEPT !.found = Cell(Canon(ToStr(Or(req[r].id, Empty)))),
                                       !.owner = owner, !.owner_email = owner_email,
                                       !.row = ReportRow(rec.cleanId, finder_name,
                                                         rec.cleanEmail, message,
                                                         owner_email)],
                        "insert", "insert found_reports")
             [] outcome = "error" ->
                  Respond(r, rec, Fail(500, StoreError))
             [] outcome = "throw" ->
                  Respond(r, rec, Fail(500, StoreThrow))
    /\ UNCHANGED <<process_env, supabasePublic, supabaseAdmin, detectors, found_reports>>

(* .from("found_reports").insert([row]).select("*").single(): the store
   assigns id and created_at and answers with the stored row. *)
StoredRow(row) ==
    [id |-> Len(found_reports) + 1, created_at |-> Len(found_reports) + 1,
     detector_id |-> row.detector_id, finder_name |-> row.finder_name,
     finder_email |-> row.finder_email, message |-> row.message,
     owner_email |-> row.owner_email]

SameReport(a, b) ==
    /\ a.detector_id = b.detector_id
    /\ a.finder_name = b.finder_name
    /\ a.finder_email = b.finder_email
    /\ a.message = b.message

ReportInsertReply_Dedup(r, outcome) ==
    /\ req[r].handler = "report"
    /\ req[r].pc = "insert"
    /\ LET rec == [req[r] EXCEPT !.outcome = outcome]
           inserted == StoredRow(rec.row)
           same == {i \in 1..Len(found_reports) : SameReport(found_reports[i], rec.row)}
       IN  CASE outcome = "ok" /\ same = {} ->
                  /\ found_reports' = Append(found_reports, inserted)
                  /\ Respond(r, rec, Json(200, [success |-> TRUE, inserted |-> inserted]))
             [] outcome = "ok" /\ same # {} ->
                  /\ UNCHANGED found_reports
                  /\ Respond(r, rec, Json(200, [success |-> TRUE,
                          inserted |-> found_reports[CHOOSE i \in same : TRUE]]))
             [] outcome \in {"error", "throw"} ->
                  /\ UNCHANGED found_reports
                  /\ Respond(r, rec, Fail(500, StoreError))
    /\ UNCHANGED <<process_env, supabasePublic, supabaseAdmin, detectors>>

ReportInsertReply_RowOnError(r, outcome) ==
    /\ req[r].handler = "report"
    /\ req[r].pc = "insert"
    /\ LET rec == [req[r] EXCEPT !.outcome = outcome]
           inserted == StoredRow(rec.row)
       IN  /\ found_reports' = Append(found_reports, inserted)
           /\ IF outcome = "ok"
              THEN Respond(r, rec, Json(200, [success |-> TRUE, inserted |-> inserted]))
              ELSE Respond(r, rec, Fail(500, StoreError))
    /\ UNCHANGED <<process_env, supabasePublic, supabaseAdmin, detectors>>

ReportInsertReply_Replace(r, outcome) ==
    /\ req[r].handler = "report"
    /\ req[r].pc = "insert"
    /\ LET rec == [req[r] EXCEPT !.outcome = outcome]
           inserted == StoredRow(rec.row)
           same == {i \in 1..Len(found_reports) :
                       found_reports[i].detector_id = rec.row.detector_id}
       IN  CASE outcome = "ok" /\ same = {} ->
                  /\ found_reports' = Append(found_reports, inserted)
                  /\ Respond(r, rec, Json(200, [success |-> TRUE, inserted |-> inserted]))
             [] outcome = "ok" /\ same # {} ->
                  LET i == CHOOSE i \in same : TRUE
                      replaced == [inserted EXCEPT !.id = i]
                  IN  /\ found_reports' = [found_reports EXCEPT ![i] = replaced]
                      /\ Respond(r, rec, Json(200, [success |-> TRUE, inserted |-> replaced]))
             [] outcome \in {"error", "throw"} ->
                  /\ UNCHANGED found_reports
                  /\ Respond(r, rec, Fail(500, StoreError))
    /\ UNCHANGED <<process_env, supabasePublic, supabaseAdmin, detectors>>

(* The insert answers (lines 222-243). *)
ReportInsertReply(r, outcome) ==
    /\ req[r].handler = "report"
    /\ req[r].pc = "insert"
    /\ LET rec == [req[r] EXCEPT !.outcome = outcome]
           inserted == StoredRow(rec.row)
       IN  CASE outcome = "ok" ->
                  /\ found_reports' = Append(found_reports, inserted)
                  /\ Respond(r, rec, Json(200, [success |-> TRUE, inserted |-> inserted]))
             [] outcome = "error" ->
                  /\ UNCHANGED found_reports
                  /\ Respond(r, rec, Fail(500, StoreError))
             [] outcome = "throw" ->
                  /\ UNCHANGED found_reports
                  /\ Respond(r, rec, Fail(500, StoreThrow))
    /\ UNCHANGED <<process_env, supabasePublic, supabaseAdmin, detectors>>

----------------------------------------------------------------------------
(* Handlers of the other server files of the repository. *)

(* part_004:10-18: no default endpoint, one client built with the anon key *)
supabase_part004 ==
    IF Truthy(process_env.SUPABASE_URL) /\ Truthy(process_env.SUPABASE_ANON_KEY)
    THEN createClient(process_env.SUPABASE_URL, process_env.SUPABASE_ANON_KEY)
    ELSE NullObj

(* GET /api/verify: part_004:54-78 *)
VerifyId_part004(raw) == trim(ToStr(Or(raw, Empty)))

VerifyGate_part004(id) ==
    IF ~Truthy(id) THEN Fail(400, "Missing id")
    ELSE IF supabase_part004 = NullObj
    THEN Fail(500, "Supabase env vars missing on server.")
    ELSE NoRes

VerifyStart_part004(r, raw) ==
    /\ req[r].pc = "idle"
    /\ LET id == VerifyId_part004(raw)
           rec == [req[r] EXCEPT !.handler = "verify_part004", !.id = raw, !.cleanId = id]
       IN  IF VerifyGate_part004(id) # NoRes
           THEN Respond(r, rec, VerifyGate_part004(id))
           ELSE Await(r, rec, "lookup", "select detectors")
    /\ UNCHANGED <<process_env, supabasePublic, supabaseAdmin, detectors, found_reports>>

VerifyReply_part004(r, outcome) ==
    /\ req[r].handler = "verify_part004"
    /\ req[r].pc = "lookup"
    /\ LET rec == [req[r] EXCEPT !.outcome = outcome]
           ok == [rec EXCEPT !.seen = DetectorIdsPresent,
                             !.found = Cell(Canon(ToStr(Or(req[r].id, Empty))))]
       IN  CASE outcome = "ok" ->
                  Respond(r, ok, VerifyResult(rec.cleanId, SelectDetector(rec.cleanId)))
             [] outcome = "error" ->
                  Respond(r, rec, Fail(500, StoreError))
             [] outcome = "throw" ->
                  req' = [req EXCEPT ![r] = [rec EXCEPT !.pc = "hung"]]
    /\ UNCHANGED <<process_env, supabasePublic, supabaseAdmin, detectors, found_reports>>

(* GET /health: part_003:43-50, which reads process.env at each request *)
HealthBody_part003 ==
    [ok |-> TRUE,
     hasSupabaseUrl |-> Truthy(process_env.SUPABASE_URL),
     hasAnonKey |-> Truthy(process_env.SUPABASE_ANON_KEY),
     hasServiceRoleKey |-> Truthy(process_env.SUPABASE_SERVICE_ROLE_KEY)]

Health_part003(r) ==
    /\ req[r].pc = "idle"
    /\ Respond(r, [req[r] EXCEPT !.handler = "health_part003"],
               Json(200, HealthBody_part003))
    /\ UNCHANGED <<process_env, supabasePublic, supabaseAdmin, detectors, found_reports>>

(* part_001:279-290: the endpoint and the anon key both have defaults, and
   the one client is built with the anon key *)
DefaultAnonKey_part001 == <<"d">>

supabase_part001 ==
    IF Truthy(Or(process_env.SUPABASE_URL, DefaultUrl))
       /\ Truthy(Or(process_env.SUPABASE_ANON_KEY, DefaultAnonKey_part001))
    THEN createClient(Or(process_env.SUPABASE_URL, DefaultUrl),
                      Or(process_env.SUPABASE_ANON_KEY, DefaultAnonKey_part001))
    ELSE NullObj

(* POST /api/report: part_001:524-579, on the body { id, name, email, message } *)
ReportGate_part001(id, email) ==
    IF ~Truthy(id) \/ ~Truthy(email)
    THEN Fail(400, "Missing required fields (id, email)")
    ELSE IF supabase_part001 = NullObj
    THEN Fail(500, "Supabase env vars missing on server.")
    ELSE NoRes

ReportRow_part001(id, name, email, message, owner_email) ==
    [detector_id |-> id,
     finder_name |-> Or(name, Null),
     finder_email |-> email,
     message |-> Or(message, Null),
     owner_email |-> owner_email]

ReportStart_part001(r, id, email) ==
    /\ req[r].pc = "idle"
    /\ LET rec == [req[r] EXCEPT !.handler = "report_part001", !.id = id,
                                 !.finder_email = email,
                                 !.began = Len(found_reports)]
       IN  IF ReportGate_part001(id, email) # NoRes
           THEN Respond(r, rec, ReportGate_part001(id, email))
           ELSE Await(r, rec, "lookup", "select detectors")
    /\ UNCHANGED <<process_env, supabasePublic, supabaseAdmin, detectors, found_reports>>

ReportLookupReply_part001(r, outcome, name, message) ==
    /\ req[r].handler = "report_part001"
    /\ req[r].pc = "lookup"
    /\ LET rec == [req[r] EXCEPT !.outcome = outcome]
           owner == SelectDetector(rec.id)
           owner_email == OwnerEmail(owner)
       IN  CASE outcome = "ok" ->
                  Await(r, [rec EXCEPT !.found = Cell(rec.id),
                                       !.owner = owner, !.owner_email = owner_email,
                                       !.row = ReportRow_part001(rec.id, name,
                                                                 rec.finder_email, message,
                                                                 owner_email)],
                        "insert", "insert found_reports")
             [] outcome = "error" ->
                  Respond(r, rec, Fail(500, StoreError))
             [] outcome = "throw" ->
                  Respond(r, rec, Fail(500, StoreThrow))
    /\ UNCHANGED <<process_env, supabasePublic, supabaseAdmin, detectors, found_reports>>

ReportInsertReply_part001(r, outcome) ==
    /\ req[r].handler = "report_part001"
    /\ req[r].pc = "insert"
    /\ LET rec == [req[r] EXCEPT !.outcome = outcome]
           inserted == StoredRow(rec.row)
       IN  CASE outcome = "ok" ->
                  /\ found_reports' = Append(found_reports, inserted)
                  /\ Respond(r, rec, Json(200, [success |-> TRUE, inserted |-> inserted]))
             [] outcome = "error" ->
                  /\ UNCHANGED found_reports
                  /\ Respond(r, rec, Fail(500, StoreError))
             [] outcome = "throw" ->
                  /\ UNCHANGED found_reports
                  /\ Respond(r, rec, Fail(500, StoreThrow))
    /\ UNCHANGED <<process_env, supabasePublic, supabaseAdmin, detectors>>

(* part_003:28-36: no default endpoint, one client built with the
   service-role key *)
supabaseAdmin_part003 ==
    IF Truthy(Or(process_env.SUPABASE_URL, Empty))
       /\ Truthy(Or(process_env.SUPABASE_SERVICE_ROLE_KEY, Empty))
    THEN createClient(Or(process_env.SUPABASE_URL, Empty),
                      Or(process_env.SUPABASE_SERVICE_ROLE_KEY, Empty))
    ELSE NullObj

(* GET /api/verify: part_003:54-76 *)
VerifyGate_part003(id) ==
    IF ~Truthy(id) THEN Fail(400, "Missing id")
    ELSE IF supabaseAdmin_part003 = NullObj
    THEN Fail(500, "Supabase admin client missing (SUPABASE_URL / SUPABASE_SERVICE_ROLE_KEY)")
    ELSE NoRes

VerifyStart_part003(r, raw) ==
    /\ req[r].pc = "idle"
    /\ LET id == toUpperCase(trim(ToStr(Or(raw, Empty))))
           rec == [req[r] EXCEPT !.handler = "verify_part003", !.id = raw, !.cleanId = id]
       IN  IF VerifyGate_part003(id) # NoRes
           THEN Respond(r, rec, VerifyGate_part003(id))
           ELSE Await(r, rec, "lookup", "select detectors")
    /\ UNCHANGED <<process_env, supabasePublic, supabaseAdmin, detectors, found_reports>>

VerifyReply_part003(r, outcome) ==
    /\ req[r].handler = "verify_part003"
    /\ req[r].pc = "lookup"
    /\ LET rec == [req[r] EXCEPT !.outcome = outcome]
           ok == [rec EXCEPT !.seen = DetectorIdsPresent, !.found = Cell(rec.cleanId)]
       IN  CASE outcome = "ok" ->
                  Respond(r, ok, VerifyResult(rec.cleanId, SelectDetector(rec.cleanId)))
             [] outcome = "error" ->
                  Respond(r, rec, Fail(500, StoreError))
             [] outcome = "throw" ->
                  Respond(r, rec, Fail(500, StoreThrow))
    /\ UNCHANGED <<process_env, supabasePublic, supabaseAdmin, detectors, found_reports>>

(* part_002:19-34: no default endpoint; the service key is read from
   SUPABASE_SERVICE_ROLE_KEY, then from SUPABASE_SERVICE_KEY, which is taken
   as unset *)
SUPABASE_SERVICE_KEY_part002 == Undefined

supabasePublic_part002 ==
    IF Truthy(Or(process_env.SUPABASE_URL, Empty))
       /\ Truthy(Or(process_env.SUPABASE_ANON_KEY, Empty))
    THEN createClient(Or(process_env.SUPABASE_URL, Empty),
                      Or(process_env.SUPABASE_ANON_KEY, Empty))
    ELSE NullObj

supabaseAdmin_part002 ==
    LET key == Or(process_env.SUPABASE_SERVICE_ROLE_KEY,
                  Or(SUPABASE_SERVICE_KEY_part002, Empty))
    IN  IF Truthy(Or(process_env.SUPABASE_URL, Empty)) /\ Truthy(key)
        THEN createClient(Or(process_env.SUPABASE_URL, Empty), key)
        ELSE NullObj

(* POST /api/report: part_002:187-247; the owner is looked up with the
   public client *)
ReportGate_part002(cleanId, cleanEmail) ==
    IF ~Truthy(cleanId) \/ ~Truthy(cleanEmail)
    THEN Fail(400, "Missing required fields (id, finder_email)")
    ELSE IF supabasePublic_part002 = NullObj
    THEN Fail(500, "Supabase public client missing (SUPABASE_URL / SUPABASE_ANON_KEY).")
    ELSE IF supabaseAdmin_part002 = NullObj
    THEN Fail(500, "Supabase admin client missing (SUPABASE_SERVICE_ROLE_KEY / SUPABASE_SERVICE_KEY).")
    ELSE NoRes

ReportStart_part002(r, id, finder_email) ==
    /\ req[r].pc = "idle"
    /\ LET cleanId == CleanId(id)
           cleanEmail == CleanEmail(finder_email)
           rec == [req[r] EXCEPT !.handler = "report_part002", !.id = id,
                                 !.finder_email = finder_email,
                                 !.cleanId = cleanId, !.cleanEmail = cleanEmail,
                                 !.began = Len(found_reports)]
       IN  IF ReportGate_part002(cleanId, cleanEmail) # NoRes
           THEN Respond(r, rec, ReportGate_part002(cleanId, cleanEmail))
           ELSE Await(r, rec, "lookup", "select detectors")
    /\ UNCHANGED <<process_env, supabasePublic, supabaseAdmin, detectors, found_reports>>

ReportLookupReply_part002(r, outcome, finder_name, message) ==
    /\ req[r].handler = "report_part002"
    /\ req[r].pc = "lookup"
    /\ LET rec == [req[r] EXCEPT !.outcome = outcome]
           owner == SelectDetector(rec.cleanId)
           owner_email == OwnerEmail(owner)
       IN  CASE outcome = "ok" ->
                  Await(r, [rec EXCEPT !.found = Cell(rec.cleanId),
                                       !.owner = owner, !.owner_email = owner_email,
                                       !.row = ReportRow(rec.cleanId, finder_name,
                                                         rec.cleanEmail, message,
                                                         owner_email)],
                        "insert", "insert found_reports")
             [] outcome = "error" ->
                  Respond(r, rec, Fail(500, StoreError))
             [] outcome = "throw" ->
                  Respond(r, rec, Fail(500, StoreThrow))
    /\ UNCHANGED <<process_env, supabasePublic, supabaseAdmin, detectors, found_reports>>

ReportInsertReply_part002(r, outcome) ==
    /\ req[r].handler = "report_part002"
    /\ req[r].pc = "insert"
    /\ LET rec == [req[r] EXCEPT !.outcome = outcome]
           inserted == StoredRow(rec.row)
       IN  CASE outcome = "ok" ->
                  /\ found_reports' = Append(found_reports, inserted)
                  /\ Respond(r, rec, Json(200, [success |-> TRUE, inserted |-> inserted]))
             [] outcome = "error" ->
                  /\ UNCHANGED found_reports
                  /\ Respond(r, rec, Fail(500, StoreError))
             [] outcome = "throw" ->
                  /\ UNCHANGED found_reports
                  /\ Respond(r, rec, Fail(500, StoreThrow))
    /\ UNCHANGED <<process_env, supabasePublic, supabaseAdmin, detectors>>

(* POST /api/report-found: part_001:390-435, the first of the two handlers
   registered for the route and so the one that answers *)
ReportFoundStart_part001(r, id, finder_email) ==
    /\ req[r].pc = "idle"
    /\ LET rec == [req[r] EXCEPT !.handler = "report_found_part001", !.id = id,
                                 !.finder_email = finder_email]
       IN  IF ~Truthy(id) \/ ~Truthy(finder_email)
           THEN Respond(r, rec, Fail(400, "Missing required fields"))
           ELSE Await(r, rec, "lookup", "select detectors")
    /\ UNCHANGED <<process_env, supabasePublic, supabaseAdmin, detectors, found_reports>>

ReportFoundReply_part001(r, outcome) ==
    /\ req[r].handler = "report_found_part001"
    /\ req[r].pc = "lookup"
    /\ LET rec == [req[r] EXCEPT !.outcome = outcome]
           owner == SelectDetector(rec.id)
       IN  CASE outcome = "ok" /\ owner # NullObj ->
                  Respond(r, [rec EXCEPT !.found = Cell(rec.id), !.owner = owner],
                          Json(200, [success |-> TRUE]))
             [] outcome = "ok" /\ owner = NullObj ->
                  Respond(r, [rec EXCEPT !.found = Cell(rec.id)],
                          Json(200, [success |-> FALSE, error |-> "ID not registered"]))
             [] outcome = "error" ->
                  Respond(r, rec, Json(200, [success |-> FALSE, error |-> "ID not registered"]))
             [] outcome = "throw" ->
                  Respond(r, rec, Fail(500, "Server error"))
    /\ UNCHANGED <<process_env, supabasePublic, supabaseAdmin, detectors, found_reports>>

(* POST /api/report: part_003:115-168, with the client of part_003:33-36 *)
ReportGate_part003(cleanId, cleanEmail) ==
    IF ~Truthy(cleanId) \/ ~Truthy(cleanEmail)
    THEN Fail(400, "Missing required fields (id, finder_email)")
    ELSE IF supabaseAdmin_part003 = NullObj
    THEN Fail(500, "Supabase admin client missing (SUPABASE_URL / SUPABASE_SERVICE_ROLE_KEY).")
    ELSE NoRes

ReportStart_part003(r, id, finder_email) ==
    /\ req[r].pc = "idle"
    /\ LET cleanId == CleanId(id)
           cleanEmail == CleanEmail(finder_email)
           rec == [req[r] EXCEPT !.handler = "report_part003", !.id = id,
                                 !.finder_email = finder_email,
                                 !.cleanId = cleanId, !.cleanEmail = cleanEmail,
                                 !.began = Len(found_reports)]
       IN  IF ReportGate_part003(cleanId, cleanEmail) # NoRes
           THEN Respond(r, rec, ReportGate_part003(cleanId, cleanEmail))
           ELSE Await(r, rec, "lookup", "select detectors")
    /\ UNCHANGED <<process_env, supabasePublic, supabaseAdmin, detectors, found_reports>>

ReportLookupReply_part003(r, outcome, finder_name, message) ==
    /\ req[r].handler = "report_part003"
    /\ req[r].pc = "lookup"
    /\ LET rec == [req[r] EXCEPT !.outcome = outcome]
           owner == SelectDetector(rec.cleanId)
           owner_email == OwnerEmail(owner)
       IN  CASE outcome = "ok" ->
                  Await(r, [rec EXCEPT !.found = Cell(rec.cleanId),
                                       !.owner = owner, !.owner_email = owner_email,
                                       !.row = ReportRow(rec.cleanId, finder_name,
                                                         rec.cleanEmail, message,
                                                         owner_email)],
                        "insert", "insert found_reports")
             [] outcome = "error" ->
                  Respond(r, rec, Fail(500, StoreError))
             [] outcome = "throw" ->
                  Respond(r, rec, Fail(500, StoreThrow))
    /\ UNCHANGED <<process_env, supabasePublic, supabaseAdmin, detectors, found_reports>>

ReportInsertReply_part003(r, outcome) ==
    /\ req[r].handler = "report_part003"
    /\ req[r].pc = "insert"
    /\ LET rec == [req[r] EXCEPT !.outcome = outcome]
           inserted == StoredRow(rec.row)
       IN  CASE outcome = "ok" ->
                  /\ found_reports' = Append(found_reports, inserted)
                  /\ Respond(r, rec, Json(200, [success |-> TRUE, inserted |-> inserted]))
             [] outcome = "error" ->
                  /\ UNCHANGED found_reports
                  /\ Respond(r, rec, Fail(500, StoreError))
             [] outcome = "throw" ->
                  /\ UNCHANGED found_reports
                  /\ Respond(r, rec, Fail(500, StoreThrow))
    /\ UNCHANGED <<process_env, supabasePublic, supabaseAdmin, detectors>>

----------------------------------------------------------------------------
(* The detectors table is written only from outside the API. *)

ExternalWrite(d, v) ==
    /\ v \in {NoRow} \cup Emails
    /\ detectors[d] # v
    /\ detectors' = [detectors EXCEPT ![d] = v]
    /\ UNCHANGED <<process_env, supabasePublic, supabaseAdmin, found_reports, req>>

----------------------------------------------------------------------------
(* One client of server.js, any configuration, inputs up to the bounds. *)

Init ==
    /\ process_env \in [SUPABASE_URL : EnvValues, SUPABASE_ANON_KEY : EnvValues,
                        SUPABASE_SERVICE_ROLE_KEY : EnvValues]
    /\ supabasePublic = PublicClient
    /\ supabaseAdmin = AdminClient
    /\ detectors \in {f \in [DetectorIds -> {NoRow} \cup Emails] :
                         \A d \in DetectorIds : f[d] \in Cells(d)}
    /\ found_reports = <<>>
    /\ req = [r \in Reqs |-> Idle]

Next ==
    \/ Health(1)
    \/ \E raw \in RawIds : VerifyStart(1, raw)
    \/ \E o \in Outcomes : VerifyReply(1, o)
    \/ \E id \in RawIds, finder_email \in RawEmails : ReportStart(1, id, finder_email)
    \/ \E o \in Outcomes, finder_name \in OptionalTexts, message \in OptionalTexts :
          ReportLookupReply(1, o, finder_name, message)
    \/ \E o \in Outcomes : ReportInsertReply(1, o)
    \/ \E d \in DetectorIds : \E v \in Cells(d) : ExternalWrite(d, v)

Spec == Init /\ [][Next]_vars

----------------------------------------------------------------------------
(* Several clients report at once against a server with write access: the
   lookups and inserts of the requests interleave with each other and with
   the writes to the detectors table. *)

ConcIds == {<<" ", "a">>, <<"a", "a">>}
ConcEmails == {<<"x">>}
ConcTexts == {Undefined}

InitConc ==
    /\ Init
    /\ Truthy(process_env.SUPABASE_SERVICE_ROLE_KEY)
    /\ Truthy(process_env.SUPABASE_URL)

NextConc ==
    \/ \E r \in Reqs, id \in ConcIds, finder_email \in ConcEmails :
          ReportStart(r, id, finder_email)
    \/ \E r \in Reqs, o \in Outcomes, finder_name \in ConcTexts, message \in ConcTexts :
          ReportLookupReply(r, o, finder_name, message)
    \/ \E r \in Reqs, o \in Outcomes : ReportInsertReply(r, o)
    \/ \E d \in DetectorIds : \E v \in Cells(d) : ExternalWrite(d, v)

SpecConc == InitConc /\ [][NextConc]_vars

----------------------------------------------------------------------------
(* The handlers of the other server files, next to /health of server.js,
   serving several clients at once. *)

VariantIds == {<<"A">>, <<" ", "a">>}

NextRepo ==
    \/ \E r \in Reqs : Health(r)
    \/ \E r \in Reqs : Health_part003(r)
    \/ \E r \in Reqs, raw \in VariantIds : VerifyStart_part004(r, raw)
    \/ \E r \in Reqs, o \in Outcomes : VerifyReply_part004(r, o)
    \/ \E d \in DetectorIds : \E v \in Cells(d) : ExternalWrite(d, v)

SpecRepo == Init /\ [][NextRepo]_vars

----------------------------------------------------------------------------
(* POST /api/report of part_001, one client. *)

NextPart001 ==
    \/ \E id \in RawIds, email \in RawEmails : ReportStart_part001(1, id, email)
    \/ \E o \in Outcomes, name \in OptionalTexts, message \in OptionalTexts :
           ReportLookupReply_part001(1, o, name, message)
    \/ \E o \in Outcomes : ReportInsertReply_part001(1, o)
    \/ \E d \in DetectorIds : \E v \in Cells(d) : ExternalWrite(d, v)

SpecPart001 == Init /\ [][NextPart001]_vars

----------------------------------------------------------------------------
(* GET /api/verify of part_003, POST /api/report of part_002 and
   POST /api/report-found of part_001, one client. *)

NextVariants ==
    \/ \E raw \in RawIds : VerifyStart_part003(1, raw)
    \/ \E o \in Outcomes : VerifyReply_part003(1, o)
    \/ \E id \in RawIds, e \in RawEmails : ReportStart_part002(1, id, e)
    \/ \E o \in Outcomes, n \in OptionalTexts, m \in OptionalTexts :
           ReportLookupReply_part002(1, o, n, m)
    \/ \E o \in Outcomes : ReportInsertReply_part002(1, o)
    \/ \E id \in RawIds, e \in RawEmails : ReportFoundStart_part001(1, id, e)
    \/ \E o \in Outcomes : ReportFoundReply_part001(1, o)
    \/ \E d \in DetectorIds : \E v \in Cells(d) : ExternalWrite(d, v)

SpecVariants == Init /\ [][NextVariants]_vars

----------------------------------------------------------------------------
(* POST /api/report of server.js, several requests in flight, any
   configuration, valid and invalid input. *)

ResubmitIds == {Empty, <<" ", "a">>}

NextReports ==
    \/ \E r \in Reqs, id \in ResubmitIds, e \in ConcEmails : ReportStart(r, id, e)
    \/ \E r \in Reqs, o \in Outcomes, n \in ConcTexts, m \in ConcTexts :
           ReportLookupReply(r, o, n, m)
    \/ \E r \in Reqs, o \in Outcomes : ReportInsertReply(r, o)
    \/ \E d \in DetectorIds : \E v \in Cells(d) : ExternalWrite(d, v)

SpecReports == Init /\ [][NextReports]_vars

----------------------------------------------------------------------------
(* POST /api/report of server.js and of part_003, one client. *)

OwnerIds == {Empty, <<"A">>, <<" ", "a">>}

NextOwner ==
    \/ \E id \in OwnerIds, e \in ConcEmails : ReportStart(1, id, e)
    \/ \E o \in Outcomes, n \in ConcTexts, m \in ConcTexts : ReportLookupReply(1, o, n, m)
    \/ \E o \in Outcomes : ReportInsertReply(1, o)
    \/ \E id \in OwnerIds, e \in ConcEmails : ReportStart_part003(1, id, e)
    \/ \E o \in Outcomes, n \in ConcTexts, m \in ConcTexts :
           ReportLookupReply_part003(1, o, n, m)
    \/ \E o \in Outcomes : ReportInsertReply_part003(1, o)
    \/ \E d \in DetectorIds : \E v \in OwnerCells(d) : ExternalWrite(d, v)

SpecOwner == Init /\ [][NextOwner]_vars

----------------------------------------------------------------------------
(* Properties of GET /api/verify *)

IsVerify(r) == req[r].handler = "verify"
IsReport(r) == req[r].handler = "report"
Answered(r) == req[r].pc = "done"
Ended(r) == req[r].pc \in {"done", "hung"}

(* An input that is absent, empty or made of white space only. *)
Blank(v) == ~Truthy(v) \/ trim(v) = Empty

(* C1: a verify whose raw id has, as canonical form, the id of a detector
   present when the store is asked, and whose lookup is answered without
   error, answers 200 with success, registered = true and the canonical id. *)
C1_VerifyRegistered ==
    \A r \in Reqs :
        (IsVerify(r) /\ Ended(r) /\ req[r].outcome = "ok" /\ req[r].found # NoRow)
        => /\ Answered(r)
           /\ req[r].res = Json(200, [success |-> TRUE, registered |-> TRUE,
                                      id |-> Canon(req[r].id)])

C1_Witness ==
    \E r \in Reqs :
        /\ IsVerify(r) /\ Answered(r) /\ req[r].outcome = "ok" /\ req[r].found # NoRow
        /\ req[r].id = <<" ", "a">>
        /\ req[r].res.body.registered
        /\ req[r].res.body.id = <<"A">>

(* C2 as stated: every verify with a non-empty raw id, read access
   configured, no store error and no detector under the canonical id
   answers 200 with registered = false. *)
C2_AsStated ==
    \A r \in Reqs :
        (/\ IsVerify(r) /\ Ended(r)
         /\ Truthy(req[r].id)
         /\ supabasePublic # NullObj
         /\ req[r].outcome \notin {"error", "throw"}
         /\ req[r].found = NoRow)
        => /\ Answered(r)
           /\ req[r].res.status = 200
           /\ req[r].res.body.success
           /\ ~req[r].res.body.registered

(* C2 amended: the same for every raw id whose canonical form is not
   empty; a raw id of white space only is answered 400 instead. *)
C2_VerifyNotRegistered ==
    \A r \in Reqs :
        (/\ IsVerify(r) /\ Ended(r)
         /\ ~Blank(req[r].id)
         /\ supabasePublic # NullObj
         /\ req[r].outcome \notin {"error", "throw"}
         /\ req[r].found = NoRow)
        => /\ Answered(r)
           /\ req[r].res = Json(200, [success |-> TRUE, registered |-> FALSE,
                                      id |-> Canon(req[r].id)])

(* The lower-case id "a" is in the store, the canonical id "A" is not. *)
C2_Witness ==
    \E r \in Reqs :
        /\ IsVerify(r) /\ Answered(r) /\ req[r].outcome = "ok"
        /\ req[r].id = <<"a">>
        /\ req[r].found = NoRow
        /\ <<"a">> \in req[r].seen
        /\ req[r].res.status = 200
        /\ ~req[r].res.body.registered

(* C3: a verify whose id is absent, empty or white space only is answered
   400 with success = false, whatever the configuration, and issues no
   store call. *)
C3_VerifyMissingId ==
    \A r \in Reqs :
        (IsVerify(r) /\ Blank(req[r].id))
        => /\ Answered(r)
           /\ req[r].res = Fail(400, "Missing id")
           /\ req[r].calls = <<>>

C3_Witness ==
    \E r \in Reqs :
        /\ IsVerify(r) /\ Answered(r)
        /\ req[r].id = <<" ">>
        /\ supabasePublic = NullObj
        /\ req[r].res.status = 400
        /\ req[r].calls = <<>>

----------------------------------------------------------------------------
(* Properties of POST /api/report *)

Succeeded(r) == IsReport(r) /\ Answered(r) /\ req[r].res.status = 200

(* The credential pairs: the endpoint in use and a key. *)
ReadCredentials == Truthy(SUPABASE_URL) /\ Truthy(process_env.SUPABASE_ANON_KEY)
WriteCredentials == Truthy(SUPABASE_URL) /\ Truthy(process_env.SUPABASE_SERVICE_ROLE_KEY)

(* The request's input is valid, write access is configured and neither
   store call has failed. *)
CleanRun(r) ==
    /\ IsReport(r) /\ Ended(r)
    /\ ~Blank(req[r].id) /\ ~Blank(req[r].finder_email)
    /\ WriteCredentials
    /\ req[r].outcome \notin {"error", "throw"}

(* The row the store returned to r is in the table, under its id. *)
Stored(r) ==
    LET inserted == req[r].res.body.inserted
    IN  /\ inserted.id \in 1..Len(found_reports)
        /\ found_reports[inserted.id] = inserted

(* Every row was added by one successful report, and each added one. *)
OneRowEach == Len(found_reports) = Cardinality({r \in Reqs : Succeeded(r)})

(* C5: a report with valid input, write access and no store error, whose
   canonical id has no detector when the owner is looked up, succeeds,
   adds one row with owner_email = null, the canonical id and the trimmed
   finder_email, and returns that row. *)
C5_ReportUnknownId ==
    \A r \in Reqs :
        (CleanRun(r) /\ req[r].found = NoRow)
        => /\ Succeeded(r)
           /\ req[r].res.body.success
           /\ Stored(r)
           /\ OneRowEach
           /\ req[r].res.body.inserted.owner_email = Null
           /\ req[r].res.body.inserted.detector_id = Canon(req[r].id)
           /\ req[r].res.body.inserted.finder_email = trim(req[r].finder_email)

C5_Witness ==
    \E r \in Reqs :
        /\ CleanRun(r) /\ Succeeded(r) /\ req[r].found = NoRow
        /\ req[r].id = <<"a", " ">>
        /\ detectors[<<"a">>] # NoRow
        /\ Len(found_reports) = 1
        /\ found_reports[1].owner_email = Null
        /\ found_reports[1].detector_id = <<"A">>

(* C6 as stated: a successful report against an id with a detector stores
   owner_email equal to the email the detector held at the lookup. *)
C6_AsStated ==
    \A r \in Reqs :
        (Succeeded(r) /\ req[r].found # NoRow)
        => /\ Stored(r)
           /\ req[r].res.body.inserted.owner_email = req[r].found

(* C6 amended: owner_email is the email the detector held when the owner
   was looked up, or null when that email was empty. *)
C6_ReportOwnerEmail ==
    \A r \in Reqs :
        (CleanRun(r) /\ req[r].found # NoRow)
        => /\ Succeeded(r)
           /\ Stored(r)
           /\ req[r].res.body.inserted.owner_email =
                  IF req[r].found = Empty THEN Null ELSE req[r].found

(* The detector's email has changed since the lookup; the row keeps the
   email of the lookup. *)
C6_Witness ==
    \E r \in Reqs :
        /\ Succeeded(r) /\ Stored(r)
        /\ req[r].found = <<"p">>
        /\ detectors[<<"A">>] = <<"q">>
        /\ req[r].res.body.inserted.owner_email = <<"p">>

(* C7: a report whose finder_email, or whose id, is absent, empty or
   white space only is answered 400 with success = false, whatever the
   configuration, issues no store call and adds no row. *)
C7_ReportMissingFields ==
    \A r \in Reqs :
        (IsReport(r) /\ (Blank(req[r].finder_email) \/ Blank(req[r].id)))
        => /\ Answered(r)
           /\ req[r].res = Fail(400, "Missing required fields (id, finder_email)")
           /\ req[r].calls = <<>>
           /\ OneRowEach

C7_Witness ==
    \E r \in Reqs :
        /\ IsReport(r) /\ Answered(r)
        /\ req[r].id = <<"A">>
        /\ req[r].finder_email = <<" ">>
        /\ ~WriteCredentials
        /\ req[r].res.status = 400
        /\ found_reports = <<>>

(* C8 as stated, for the report handlers of server.js and of part_001:
   without write credentials every report, whatever its input, is answered
   with a configuration error (500) and no row is added. *)
C8_AsStated ==
    \A r \in Reqs :
        (req[r].handler \in {"report", "report_part001"} /\ Ended(r) /\ ~WriteCredentials)
        => /\ req[r].res \in
                  {Fail(500, "Supabase admin client missing (SUPABASE_SERVICE_ROLE_KEY)."),
                   Fail(500, "Supabase env vars missing on server.")}
           /\ found_reports = <<>>

(* C8, the part of it that does not depend on the order of the checks:
   without write credentials no report is answered with success and no row
   is added. *)
C8_NoRowWithoutWriteAccess ==
    ~WriteCredentials =>
        /\ found_reports = <<>>
        /\ \A r \in Reqs : req[r].handler \in {"report", "report_part001"}
                           => req[r].res.status # 200

(* The report handler of part_001 has added a row with no service-role key
   in the environment. *)
C8_RowWithoutWriteAccess ==
    \E r \in Reqs :
        /\ req[r].handler = "report_part001" /\ Answered(r)
        /\ ~WriteCredentials
        /\ req[r].id = <<"A">>
        /\ req[r].finder_email = <<"x">>
        /\ req[r].res.status = 200
        /\ Len(found_reports) = 1

(* C8 on server.js: without write credentials every report fails, issues
   no store call and adds no row: with the configuration error (500) when
   the canonical id and the trimmed finder_email are not empty, with the
   validation error (400) otherwise. *)
C8_ReportWithoutWriteAccess ==
    \A r \in Reqs :
        (IsReport(r) /\ ~WriteCredentials)
        => /\ Answered(r)
           /\ req[r].calls = <<>>
           /\ found_reports = <<>>
           /\ req[r].res =
                  IF Blank(req[r].id) \/ Blank(req[r].finder_email)
                  THEN Fail(400, "Missing required fields (id, finder_email)")
                  ELSE Fail(500, "Supabase admin client missing (SUPABASE_SERVICE_ROLE_KEY).")

(* Read access is configured, write access is not. *)
C8_Witness ==
    \E r \in Reqs :
        /\ IsReport(r) /\ Answered(r)
        /\ ~WriteCredentials /\ ReadCredentials
        /\ req[r].id = <<"A">>
        /\ req[r].finder_email = <<"x">>
        /\ req[r].res.status = 500
        /\ found_reports = <<>>

(* C4 as stated, for the verify handlers of server.js and of part_004:
   canonicalization is idempotent, and two verify calls whose raw ids have
   the same canonical form, answered by the store in the same way from the
   same detectors, get the same response. *)
C4_AsStated ==
    /\ \A raw \in RawIds : /\ VerifyId(VerifyId(raw)) = VerifyId(raw)
                           /\ VerifyId_part004(VerifyId_part004(raw)) = VerifyId_part004(raw)
    /\ \A p, q \in Reqs :
        (/\ req[p].handler \in {"verify", "verify_part004"}
         /\ req[q].handler = req[p].handler
         /\ Ended(p) /\ Ended(q)
         /\ Canon(ToStr(Or(req[p].id, Empty))) = Canon(ToStr(Or(req[q].id, Empty)))
         /\ req[p].outcome = req[q].outcome
         /\ req[p].seen = req[q].seen)
        => /\ req[p].pc = req[q].pc
           /\ req[p].res = req[q].res

(* C9: two reports with the same valid input, write access and no store
   error both succeed, whatever the order of their lookups and inserts, and
   leave two rows with distinct ids. *)
C9_NoDeduplication ==
    \A p, q \in Reqs :
        (/\ p # q
         /\ CleanRun(p) /\ CleanRun(q)
         /\ req[p].id = req[q].id
         /\ req[p].finder_email = req[q].finder_email
         /\ req[p].row.finder_name = req[q].row.finder_name
         /\ req[p].row.message = req[q].row.message)
        => /\ Succeeded(p) /\ Succeeded(q)
           /\ Stored(p) /\ Stored(q)
           /\ req[p].res.body.inserted.id # req[q].res.body.inserted.id
           /\ OneRowEach

(* Both requests arrived before either row was stored, so they overlapped;
   both rows are for the same detector, finder and owner. *)
C9_Witness ==
    \E p, q \in Reqs :
        /\ p # q
        /\ Succeeded(p) /\ Succeeded(q)
        /\ req[p].began = 0 /\ req[q].began = 0
        /\ req[p].id = req[q].id
        /\ req[p].row = req[q].row
        /\ req[p].res.body.inserted.id = 1
        /\ req[q].res.body.inserted.id = 2
        /\ Len(found_reports) >= 2

----------------------------------------------------------------------------
(* Properties of GET /health *)

ReadFlag(body) == body.hasSupabaseUrl /\ body.hasAnonKey
WriteFlag(body) == body.hasSupabaseUrl /\ body.hasServiceRoleKey

(* C10: /health of server.js and of part_003 always answers 200 with
   ok = true and issues no store call; its read flag is true exactly when
   the endpoint and the anon key are set, its write flag exactly when the
   endpoint and the service-role key are set.  For server.js these are the
   conditions under which the two clients exist. *)
C10_HealthReflectsCredentials ==
    \A r \in Reqs :
        /\ (req[r].handler = "health")
            => /\ Answered(r)
               /\ req[r].res.status = 200
               /\ req[r].res.body.ok
               /\ req[r].calls = <<>>
               /\ ReadFlag(req[r].res.body) <=> ReadCredentials
               /\ WriteFlag(req[r].res.body) <=> WriteCredentials
               /\ ReadFlag(req[r].res.body) <=> (supabasePublic # NullObj)
               /\ WriteFlag(req[r].res.body) <=> (supabaseAdmin # NullObj)
        /\ (req[r].handler = "health_part003")
            => /\ Answered(r)
               /\ req[r].res.status = 200
               /\ req[r].res.body.ok
               /\ req[r].calls = <<>>
               /\ ReadFlag(req[r].res.body) <=>
                      (Truthy(process_env.SUPABASE_URL)
                       /\ Truthy(process_env.SUPABASE_ANON_KEY))
               /\ WriteFlag(req[r].res.body) <=>
                      (Truthy(process_env.SUPABASE_URL)
                       /\ Truthy(process_env.SUPABASE_SERVICE_ROLE_KEY))

(* No endpoint in the environment (server.js falls back on its own), no
   anon key, a service-role key: no read access, write access. *)
C10_Witness ==
    \E r \in Reqs :
        /\ req[r].handler = "health" /\ Answered(r)
        /\ process_env.SUPABASE_URL = Undefined
        /\ process_env.SUPABASE_ANON_KEY = Undefined
        /\ Truthy(process_env.SUPABASE_SERVICE_ROLE_KEY)
        /\ ~ReadFlag(req[r].res.body)
        /\ WriteFlag(req[r].res.body)

----------------------------------------------------------------------------
(* Properties of the failures *)

VerifyHandlers == {"verify", "verify_part003", "verify_part004"}
ReportHandlers == {"report", "report_part001", "report_part002", "report_found_part001"}

(* The credential pairs as the file that serves the request reads them:
   server.js and part_001 fall back on an endpoint of their own, part_002,
   part_003 and part_004 do not. *)
ReadAccess(r) ==
    IF req[r].handler \in {"verify", "report", "report_part001", "report_found_part001"}
    THEN ReadCredentials
    ELSE Truthy(process_env.SUPABASE_URL) /\ Truthy(process_env.SUPABASE_ANON_KEY)

WriteAccess(r) ==
    IF req[r].handler \in {"verify", "report", "report_part001", "report_found_part001"}
    THEN WriteCredentials
    ELSE Truthy(process_env.SUPABASE_URL) /\ Truthy(process_env.SUPABASE_SERVICE_ROLE_KEY)

InvalidInput(r) ==
    \/ Blank(req[r].id)
    \/ req[r].handler \in ReportHandlers /\ Blank(req[r].finder_email)

(* C11 as stated: a response of verify or of a report route that is not a
   success carries success = false, with status 400 when the input is
   invalid, whatever the credentials, and with status 500 otherwise; a
   store call that failed is answered with such a 500. *)
C11_AsStated ==
    \A r \in Reqs :
        (req[r].handler \in VerifyHandlers \cup ReportHandlers /\ Answered(r))
        => /\ req[r].res.status \in {200, 400, 500}
           /\ (req[r].res.status # 200 \/ ~req[r].res.body.success)
                  => req[r].res.body = [success |-> FALSE, error |-> req[r].res.body.error]
           /\ ~req[r].res.body.success
                  => req[r].res.status = IF InvalidInput(r) THEN 400 ELSE 500
           /\ req[r].outcome \in {"error", "throw"}
                  => req[r].res.status = 500 /\ ~req[r].res.body.success

(* C12 as stated: a store call that throws, in verify or in report, is
   answered 500 with the exception's message. *)
C12_AsStated ==
    \A r \in Reqs :
        (req[r].handler \in {"verify", "report"} /\ req[r].outcome = "throw")
        => /\ Answered(r)
           /\ req[r].res = Fail(500, StoreThrow)

(* C13 as stated: a verify with a non-empty canonical id is answered with
   a configuration error (500, no store call) exactly when read access is
   not configured, whatever the write credentials. *)
C13_AsStated ==
    \A r \in Reqs :
        (req[r].handler \in {"verify", "verify_part003"} /\ ~Blank(req[r].id))
        => ((Answered(r) /\ req[r].res.status = 500 /\ req[r].calls = <<>>)
            <=> ~ReadAccess(r))

(* C14 as stated: a report whose owner lookup failed is answered 500 with
   the store's message and issues no insert. *)
C14_AsStated ==
    \A r \in Reqs :
        (/\ req[r].handler \in {"report", "report_found_part001"}
         /\ req[r].calls = <<"select detectors">>
         /\ req[r].outcome = "error")
        => /\ Answered(r)
           /\ req[r].res = Fail(500, StoreError)

(* C15 as stated: a report with valid input, write access configured and
   no failing store call succeeds, whether or not read access is
   configured. *)
C15_AsStated ==
    \A r \in Reqs :
        (/\ req[r].handler \in {"report", "report_part002"}
         /\ Ended(r)
         /\ ~InvalidInput(r)
         /\ WriteAccess(r)
         /\ req[r].outcome \notin {"error", "throw"})
        => /\ Answered(r)
           /\ req[r].res.status = 200
           /\ req[r].res.body.success

----------------------------------------------------------------------------
(* Properties of the stored rows and of the frame *)

OptionalField(v) == v = Null \/ (v # Empty /\ v # Undefined)

(* C16 as stated: in every stored row finder_name and message are null or
   a non-empty string. *)
C16_AsStated ==
    \A i \in 1..Len(found_reports) :
        /\ OptionalField(found_reports[i].finder_name)
        /\ OptionalField(found_reports[i].message)

Failed(r) == IsReport(r) /\ Answered(r) /\ req[r].res.status # 200

(* C17: the rows of found_reports are the rows returned by the reports that
   succeeded, one each under distinct ids; a report that failed, for
   whatever cause, has added none; and the table changes only in the step
   in which a report's insert is answered with success, by that one row. *)
C17_OneRowPerSuccess ==
    /\ [](/\ OneRowEach
          /\ \A r \in Reqs : Succeeded(r) => Stored(r)
          /\ \A p, q \in Reqs :
                 (Succeeded(p) /\ Succeeded(q) /\ p # q)
                 => req[p].res.body.inserted.id # req[q].res.body.inserted.id)
    /\ [][/\ \A r \in Reqs :
                 (req[r].pc # "done" /\ req'[r].pc = "done" /\ req'[r].res.status # 200)
                 => found_reports' = found_reports
          /\ found_reports' # found_reports
                 => \E r \in Reqs :
                        /\ IsReport(r) /\ req[r].pc = "insert"
                        /\ req'[r].pc = "done" /\ req'[r].res.status = 200
                        /\ found_reports' = Append(found_reports,
                                                   req'[r].res.body.inserted)]_vars

(* A report failed on its insert and the same input, submitted again, was
   stored once. *)
C17_Witness ==
    \E p, q \in Reqs :
        /\ Failed(p) /\ req[p].calls = <<"select detectors", "insert found_reports">>
        /\ Succeeded(q)
        /\ req[q].id = req[p].id /\ req[q].finder_email = req[p].finder_email
        /\ Len(found_reports) = 1
        /\ found_reports[1] = req[q].res.body.inserted

(* C18: a step of verify changes neither the detectors, nor the reports,
   nor the clients, nor the environment, and a verify issues at most one
   call to the store, a read. *)
C18_VerifyNoSideEffects ==
    /\ [](\A r \in Reqs :
              IsVerify(r) => req[r].calls \in {<<>>, <<"select detectors">>})
    /\ [][(\E r \in Reqs : req'[r] # req[r] /\ req'[r].handler = "verify")
          => /\ detectors' = detectors
             /\ found_reports' = found_reports
             /\ supabasePublic' = supabasePublic
             /\ supabaseAdmin' = supabaseAdmin
             /\ process_env' = process_env]_vars

C18_Witness ==
    \E r \in Reqs :
        /\ IsVerify(r) /\ Answered(r)
        /\ req[r].outcome = "error"
        /\ req[r].res.status = 500
        /\ req[r].calls = <<"select detectors">>
        /\ found_reports = <<>>

(* The id a request passed to its lookup. *)
LookupId(r) ==
    IF req[r].handler \in {"report_part001", "report_found_part001"}
    THEN req[r].id ELSE req[r].cleanId

(* C19 as stated: every id passed to a lookup and every detector_id stored
   is trimmed and upper-cased, and every stored row has a non-empty
   detector_id and a non-empty, trimmed finder_email. *)
C19_AsStated ==
    /\ \A r \in Reqs :
           req[r].calls # <<>> => LookupId(r) = Canon(LookupId(r))
    /\ \A i \in 1..Len(found_reports) :
           /\ found_reports[i].detector_id # Empty
           /\ found_reports[i].detector_id = Canon(found_reports[i].detector_id)
           /\ found_reports[i].finder_email # Empty
           /\ found_reports[i].finder_email = trim(found_reports[i].finder_email)

(* C20: each client exists exactly when its credential pair is set, as
   decided at startup, and no step changes the clients or the environment
   they were built from. *)
C20_CapabilitiesFixed ==
    /\ [](/\ (supabasePublic # NullObj) <=> ReadCredentials
          /\ (supabaseAdmin # NullObj) <=> WriteCredentials
          /\ supabasePublic = PublicClient
          /\ supabaseAdmin = AdminClient)
    /\ [][/\ supabasePublic' = supabasePublic
          /\ supabaseAdmin' = supabaseAdmin
          /\ process_env' = process_env]_vars

(* A report was refused for lack of write access while read access is
   configured: the capabilities differ and are as at startup. *)
C20_Witness ==
    \E r \in Reqs :
        /\ IsReport(r) /\ Answered(r)
        /\ req[r].res = Fail(500, "Supabase admin client missing (SUPABASE_SERVICE_ROLE_KEY).")
        /\ supabasePublic # NullObj
        /\ supabaseAdmin = NullObj
        /\ process_env.SUPABASE_URL = Undefined

----------------------------------------------------------------------------
(* Properties of the stored data over time *)

(* C21: a step never removes or alters a row of found_reports, it may only
   add one at the end; and the detectors change in no step in which a
   request moves: every change of theirs comes from outside. *)
C21_AppendOnly ==
    [][/\ Len(found_reports') >= Len(found_reports)
       /\ SubSeq(found_reports', 1, Len(found_reports)) = found_reports
       /\ detectors' # detectors => req' = req]_vars

(* The first row keeps the owner's email of its time after the detector
   has changed and a later report has stored the new one. *)
C21_Witness ==
    /\ Len(found_reports) = 2
    /\ found_reports[1].detector_id = <<"A">>
    /\ found_reports[1].owner_email = <<"p">>
    /\ found_reports[2].detector_id = <<"A">>
    /\ found_reports[2].owner_email = <<"q">>
    /\ detectors[<<"A">>] = <<"q">>

(* The owner's email a lookup that found the cell c yields. *)
Snapshot(c) == IF c \in {NoRow, Null, Empty} THEN Null ELSE c

(* C22: with any number of reports in flight and the detectors changing
   meanwhile, the row of each successful report carries the canonical id
   of its own request and, as owner_email, null or the email the detector
   under that id held when that request's lookup was answered. *)
C22_OwnerEmailSnapshot ==
    \A r \in Reqs :
        Succeeded(r)
        => /\ Stored(r)
           /\ found_reports[req[r].res.body.inserted.id].detector_id = Canon(req[r].id)
           /\ found_reports[req[r].res.body.inserted.id].owner_email
                  = Snapshot(req[r].found)

(* Two overlapping reports for one id looked the owner up on either side
   of a change; the detector is gone since, and another id holds "q". *)
C22_Witness ==
    \E p, q \in Reqs :
        /\ p # q
        /\ Succeeded(p) /\ Succeeded(q)
        /\ req[p].began = 0 /\ req[q].began = 0
        /\ req[p].id = req[q].id
        /\ req[p].found = <<"p">> /\ req[q].found = Empty
        /\ req[p].res.body.inserted.owner_email = <<"p">>
        /\ req[q].res.body.inserted.owner_email = Null
        /\ detectors[<<"A">>] = NoRow
        /\ detectors[<<"a">>] = <<"q">>

(* C23: no stored row has the empty string as owner_email; a report of
   server.js or of part_003 that succeeds after its lookup found a detector
   whose email is empty or null stores owner_email = null, as it does when
   no detector matches. *)
C23_OwnerEmailNeverEmpty ==
    /\ \A i \in 1..Len(found_reports) : found_reports[i].owner_email # Empty
    /\ \A r \in Reqs :
           (/\ req[r].handler \in {"report", "report_part003"}
            /\ Answered(r) /\ req[r].res.status = 200
            /\ req[r].found \in {Empty, Null})
           => /\ Stored(r)
              /\ req[r].owner # NullObj
              /\ req[r].res.body.inserted.owner_email = Null

(* The detector exists, with an empty email, and the row says null. *)
C23_Witness ==
    \E r \in Reqs :
        /\ req[r].handler = "report" /\ Answered(r) /\ req[r].res.status = 200
        /\ req[r].found = Empty
        /\ detectors[<<"A">>] = Empty
        /\ req[r].owner = [id |-> <<"A">>, email |-> Empty]
        /\ found_reports[1].detector_id = <<"A">>
        /\ found_reports[1].owner_email = Null

====
